---- MODULE Spec2Model ----
(***************************************************************************)
(* sheriff: Marshal walks a value by reflection and builds a generic tree  *)
(* (maps, slices, scalars) keeping only the struct fields that the groups, *)
(* since and until tags make visible under the given Options.              *)
(*                                                                         *)
(* The recursion of marshalObject / marshalValue is modelled with an       *)
(* explicit call stack, one action per step of the walk.  The input value  *)
(* is read exactly once by the walker (a tree, no sharing), so each field, *)
(* element and map entry is drawn when the walker reaches it; a container  *)
(* fixes its size when it is drawn, and the sizes of one input add up to   *)
(* at most MaxNodes.                                                       *)
(***************************************************************************)
EXTENDS Integers, Sequences, FiniteSets, TLC

VARIABLES
  options,   \* the *Options of the call
  mode,      \* where the call is: idle, loop (in the loop of the top frame), return, done
  groups,    \* Marshal's groups groupSet (seeded from options.Groups)
  parents,   \* Marshal's parents groupSet
  stack,     \* the active marshalObject frames and slice / map loops of marshalValue
  ret,       \* the (interface{}, error) pair being returned
  nodes,     \* how many fields, elements and entries the input holds so far
  tags,      \* how many tags and interface implementations the input holds so far
  raised,    \* the first error raised in the call: under a hidden field? below how many loops?
  badMaps    \* the lengths of the maps given to marshalValue whose key type is not string

vars == <<options, mode, groups, parents, stack, ret, nodes, tags, raised, badMaps>>

(***************************************************************************)
(* Bounds of the inputs.                                                   *)
(***************************************************************************)
\* fields + slice elements + map entries of one input value
MaxNodes == 2
\* groups, since and until tags, embeddings, interface values and implementations,
\* nil pointers and non-string map keys of one input value
MaxTags == 2

GroupNames == {"a", "b"}
\* groups tags after strings.Split(tag, ","); <<>> is the absent (or empty) tag
GroupTags == {<<>>, <<"a">>, <<"b">>, <<"a", "a">>}
OptionGroups == {<<>>, <<"a">>}
\* the name of the i-th field of a struct
FieldNames == <<"X", "Y", "Z", "W">>
\* since / until tags: "" is absent, "x" is not a version; with the one target
\* version they give a tag that hides the field, a tag equal to the target
\* and a tag that does not parse
SinceTags == {"", "2", "3", "x"}
UntilTags == {"", "1", "2", "x"}
ApiVersions == {2}

Range(s) == {s[j] : j \in DOMAIN s}
Min(x, y) == IF x < y THEN x ELSE y

(***************************************************************************)
(* groupSet (group_set.go): a Go map[string]int.  A key that was never     *)
(* written is absent and reads as 0; len() counts the keys present.        *)
(***************************************************************************)
EmptyGroupSet == <<>>

Count(s, g) == IF g \in DOMAIN s THEN s[g] ELSE 0

Put(s, g, c) == [k \in DOMAIN s \cup {g} |-> IF k = g THEN c ELSE s[k]]

\* a plain set in place of the counts
incrementGroupsOnce(s, gs) == [k \in DOMAIN s \cup Range(gs) |-> IF k \in Range(gs) THEN 1 ELSE s[k]]

RECURSIVE incrementGroups(_, _)
incrementGroups(s, gs) ==
  IF gs = <<>> THEN s
  ELSE incrementGroups(Put(s, Head(gs), Count(s, Head(gs)) + 1), Tail(gs))

\* the pop left out
decrementGroupsKept(s, gs) == s

RECURSIVE decrementGroups(_, _)
decrementGroups(s, gs) ==
  IF gs = <<>> THEN s
  ELSE decrementGroups(Put(s, Head(gs), Count(s, Head(gs)) - 1), Tail(gs))

contains(s, group) == Count(s, group) > 0

containsAny(s, gs) == \E j \in DOMAIN gs : contains(s, gs[j])

(***************************************************************************)
(* Output nodes (interface{} values of the result tree).                   *)
(***************************************************************************)
Node(k, m, s, v) == [k |-> k, m |-> m, s |-> s, v |-> v]
Null == Node("nil", <<>>, <<>>, 0)
MapNode(m) == Node("map", m, <<>>, 0)
SliceNode(s) == Node("slice", <<>>, s, 0)
ScalarNode(v) == Node("scalar", <<>>, <<>>, v)
\* a value passed through unchanged (json.Marshaler, TextMarshaler, Stringer)
SameNode(kind) == Node(kind, <<>>, <<>>, 1)

NoError == "nil"
VersionError == "Malformed version"
InvalidTypeError == "MarshalInvalidTypeError"
DelegateError == "Marshaller error"

(***************************************************************************)
(* Input values, as reflection sees them.  kind: the reflect.Kind after    *)
(* pointers are followed ("Invalid": a nil pointer); impl: the interface   *)
(* the value implements; n: NumField / Len / number of keys, or the number *)
(* itself for an Int; keyKind: a map's key kind; out: what a Marshaller's  *)
(* Marshal returns; iface: the value sits in an interface{}.               *)
(*                                                                         *)
(* An input is bounded by its size (MaxNodes) and by how much of it is not *)
(* a plain struct of plain fields (MaxTags): every group name, since tag,  *)
(* until tag, json tag, embedding, unexported field, nil pointer, slice,   *)
(* map, non-string key, interface value and interface implementation       *)
(* counts for one.                                                         *)
(***************************************************************************)
Val(kind, impl, n, keyKind, out, iface) ==
  [kind |-> kind, impl |-> impl, n |-> n, keyKind |-> keyKind, out |-> out, iface |-> iface]

IntVal(n) == Val("Int", "", n, "", "", FALSE)
NilPointer == Val("Invalid", "", 0, "", "", FALSE)

DelegateOutcomes == {"map", "scalar", "error", "both"}

Size(v) == IF v.kind \in {"Struct", "Slice", "Map"} THEN v.n ELSE 0

B(p) == IF p THEN 1 ELSE 0

ValTags(v) ==
  IF v.impl # "" THEN 1
  ELSE B(v.kind \in {"Invalid", "Slice", "Map"}) + B(v.iface) + B(v.keyKind = "Int")

\* the values that b more nodes and t more tags allow
Values(b, t) ==
  LET sizes == 0..Min(b, 4) IN
       {IntVal(1)}
  \cup {Val("Struct", "", n, "", "", FALSE) : n \in sizes}
  \cup (IF t < 1 THEN {} ELSE
          {NilPointer}
     \cup {Val("Struct", "", n, "", "", TRUE) : n \in sizes}
     \cup {Val("Slice", "", n, "", "", FALSE) : n \in sizes}
     \cup {Val("Map", "", n, "String", "", FALSE) : n \in sizes}
     \cup {Val("Struct", "Marshaller", 0, "", o, FALSE) : o \in DelegateOutcomes}
     \cup {Val("Struct", "json.Marshaler", 0, "", "", FALSE)})
  \cup (IF t < 2 THEN {} ELSE
          {Val("Map", "", n, "Int", "", FALSE) : n \in 0..Min(b, 1)}
     \cup {Val("Slice", "", n, "", "", TRUE) : n \in sizes})

(***************************************************************************)
(* Struct fields: reflect.StructField and its tags.                        *)
(***************************************************************************)
Field(name, json, omitempty, exported, gs, since, until, anonymous, val) ==
  [Name |-> name, json |-> json, omitempty |-> omitempty, exported |-> exported,
   groups |-> gs, since |-> since, until |-> until, Anonymous |-> anonymous, val |-> val]

NoField == Field("", "", FALSE, TRUE, <<>>, "", "", FALSE, NilPointer)

FieldTags(f) ==
    Len(f.groups) + B(f.since # "") + B(f.until # "") + B(f.Anonymous)
  + B(f.json # "" \/ f.omitempty) + B(~f.exported) + ValTags(f.val)

\* fields the loop body leaves with `continue`: it reads nothing else of them
SkippedFields(nm, t) ==
  IF t < 1 THEN {} ELSE
  {Field(nm, "-", FALSE, TRUE, <<>>, "", "", FALSE, IntVal(1)),
   Field(nm, "", TRUE, TRUE, <<>>, "", "", FALSE, IntVal(0)),
   Field(nm, "", FALSE, FALSE, <<>>, "", "", FALSE, IntVal(1))}

UpTo(S, t) == IF t < 1 THEN {""} ELSE S

WalkedFields(nm, b, t) ==
  UNION {UNION {UNION {UNION {
    {Field(nm, "", FALSE, TRUE, gs, s, u, an, v) :
       v \in Values(b, t - Len(gs) - B(an) - B(s # "") - B(u # ""))} :
    u \in UpTo(UntilTags, t - Len(gs) - B(an) - B(s # ""))} :
    s \in UpTo(SinceTags, t - Len(gs) - B(an))} :
    an \in {x \in BOOLEAN : B(x) <= t - Len(gs)}} :
    gs \in {g \in GroupTags : Len(g) <= t}}

\* the fields a struct may hold at index i with b more nodes and t more tags
FieldDescs(i, b, t) == SkippedFields(FieldNames[i], t) \cup WalkedFields(FieldNames[i], b, t)

\* the data Marshal may be given: also a Marshaller that is no struct
TopValues ==
  Values(MaxNodes, MaxTags)
    \cup (IF MaxTags < 1 THEN {}
          ELSE {Val("Slice", "Marshaller", 0, "", o, FALSE) : o \in DelegateOutcomes})

\* the same sets, tabulated
ValueTable == [b \in 0..MaxNodes, t \in 0..MaxTags |-> Values(b, t)]
FieldTable ==
  [i \in 1..Len(FieldNames), b \in 0..MaxNodes, t \in 0..MaxTags |-> FieldDescs(i, b, t)]

(***************************************************************************)
(* Helpers of the field loop.                                              *)
(***************************************************************************)
\* parseTag(field.Tag.Get("json")) and the fallback to the field's name
jsonTagOf(f) == IF f.json = "" THEN f.Name ELSE f.json

\* isEmptyValue: zero length, zero number, nil pointer
isEmptyValue(v) ==
  IF v.kind \in {"Slice", "Map", "Int"} THEN v.n = 0 ELSE v.kind = "Invalid"

\* version.NewVersion: the strings that parse, and the version each denotes
Versions == ("1" :> 1 @@ "2" :> 2 @@ "3" :> 3)
ParseFails(s) == s \notin DOMAIN Versions
NewVersion(s) == Versions[s]

isEmbeddedField(f) == f.Anonymous /\ f.val.kind = "Struct" /\ ~f.val.iface

checkGroups(opts, par) ==
  \/ Len(opts.Groups) > 0
  \/ (opts.InheritGroups /\ Cardinality(DOMAIN par) > 0)
  \/ opts.OutputFieldsWithNoGroup

\* the groups tag read whether or not the groups are checked
groupNamesOfTag(opts, par, f) == f.groups

\* groupNames stays nil unless the groups are checked and the tag is not empty
groupNamesOf(opts, par, f) == IF checkGroups(opts, par) THEN f.groups ELSE <<>>

hasParentMatch(opts, par, embeddedParents, groupNames) ==
  IF opts.InheritGroups THEN containsAny(par, opts.Groups)
  ELSE IF embeddedParents /\ Len(groupNames) = 0 THEN containsAny(par, opts.Groups)
  ELSE FALSE

\* the exact match looked up in parents in place of groups
shouldShowFromGroupParents(opts, grp, par, embeddedParents, f) ==
  IF checkGroups(opts, par)
  THEN LET groupNames == groupNamesOf(opts, par, f)
       IN \/ containsAny(par, groupNames)
          \/ hasParentMatch(opts, par, embeddedParents, groupNames)
          \/ (Len(groupNames) = 0 /\ opts.OutputFieldsWithNoGroup)
          \/ isEmbeddedField(f)
  ELSE TRUE

\* OutputFieldsWithNoGroup left out of the decision
shouldShowFromGroupTagged(opts, grp, par, embeddedParents, f) ==
  IF checkGroups(opts, par)
  THEN LET groupNames == groupNamesOf(opts, par, f)
       IN \/ containsAny(grp, groupNames)
          \/ hasParentMatch(opts, par, embeddedParents, groupNames)
          \/ isEmbeddedField(f)
  ELSE TRUE

shouldShowFromGroup(opts, grp, par, embeddedParents, f) ==
  IF checkGroups(opts, par)
  THEN LET groupNames == groupNamesOf(opts, par, f)
           hasExactMatch == containsAny(grp, groupNames)
           hasNoGroup == Len(groupNames) = 0
       IN \/ hasExactMatch
          \/ hasParentMatch(opts, par, embeddedParents, groupNames)
          \/ (hasNoGroup /\ opts.OutputFieldsWithNoGroup)
          \/ isEmbeddedField(f)
  ELSE TRUE

\* the since version itself hidden
shouldShowFromSinceAfter(opts, f) ==
  ~(f.since # "" /\ opts.ApiVersion <= NewVersion(f.since))

shouldShowFromSince(opts, f) ==
  ~(f.since # "" /\ opts.ApiVersion < NewVersion(f.since))

shouldShowFromUntil(opts, f) ==
  ~(f.until # "" /\ opts.ApiVersion > NewVersion(f.until))

\* the parents set is pushed around the recursion for these fields
pushesGroups(opts, f) == opts.InheritGroups \/ isEmbeddedField(f)

\* what a Marshaller's own Marshal returns
DelegateResult(out) ==
  IF out = "map" THEN [val |-> MapNode("M" :> ScalarNode(1)), err |-> NoError]
  ELSE IF out = "scalar" THEN [val |-> ScalarNode(1), err |-> NoError]
  ELSE IF out = "error" THEN [val |-> Null, err |-> DelegateError]
  ELSE [val |-> ScalarNode(1), err |-> DelegateError]

\* the error looked at only for a field that is kept
failsWhenShown(fr, err) ==
  err # NoError /\ fr.shouldShowFromGroup /\ fr.shouldShowFromSince /\ fr.shouldShowFromUntil

\* if err != nil { return nil, err }
fails(fr, err) == err # NoError

\* for k, v := range nestedVal { dest[k] = v }
Merge(dest, nested) ==
  [k \in DOMAIN dest \cup DOMAIN nested |-> IF k \in DOMAIN nested THEN nested[k] ELSE dest[k]]

Store(dest, key, v) == Merge(dest, key :> v)

(***************************************************************************)
(* Call stack.  A marshalObject frame holds the locals of the field loop   *)
(* (busy: the loop body is inside its call of marshalValue); a slice or    *)
(* map frame holds the locals of that loop of marshalValue.                *)
(***************************************************************************)
Frame(fn, n, i, keys, dest, embeddedParents, busy, f, key, groupNames, sg, ss, su, parents0) ==
  [fn |-> fn, n |-> n, i |-> i, keys |-> keys, dest |-> dest,
   embeddedParents |-> embeddedParents, busy |-> busy, field |-> f, key |-> key,
   groupNames |-> groupNames, shouldShowFromGroup |-> sg, shouldShowFromSince |-> ss,
   shouldShowFromUntil |-> su, parents0 |-> parents0]

ObjectFrame(n, embeddedParents, par) ==
  Frame("marshalObject", n, 0, {}, MapNode(<<>>), embeddedParents, FALSE,
        NoField, "", <<>>, TRUE, TRUE, TRUE, par)

SliceFrame(l, embeddedParents) ==
  Frame("slice", l, 0, {}, SliceNode([j \in 1..l |-> Null]), embeddedParents, FALSE,
        NoField, "", <<>>, TRUE, TRUE, TRUE, EmptyGroupSet)

MapKeyNames == <<"X", "Y", "Z", "W">>
MapKeys(n) == {MapKeyNames[j] : j \in 1..n}

MapFrame(n, embeddedParents) ==
  Frame("map", n, 0, MapKeys(n), MapNode(<<>>), embeddedParents, FALSE,
        NoField, "", <<>>, TRUE, TRUE, TRUE, EmptyGroupSet)

Top == stack[Len(stack)]
Pop == SubSeq(stack, 1, Len(stack) - 1)
SetTop(fr) == [stack EXCEPT ![Len(stack)] = fr]

NoRet == [val |-> Null, err |-> NoError]
NoRaise == [err |-> NoError, hidden |-> FALSE, depth |-> 0]

Returns(st, val, err) == [mode |-> "return", stack |-> st, val |-> val, err |-> err]
Loops(st) == [mode |-> "loop", stack |-> st, val |-> Null, err |-> NoError]

(***************************************************************************)
(* marshalObject and marshalValue up to the first pass of a loop or to     *)
(* their return, called with the stack st of their caller.  marshalObject  *)
(* sends a value that is no struct to marshalValue with embeddedParents =  *)
(* false; marshalValue sends a struct, and whatever an interface{} holds,  *)
(* to marshalObject.                                                       *)
(***************************************************************************)
RECURSIVE marshalObject(_, _, _, _)
RECURSIVE marshalValue(_, _, _, _)

marshalObject(v, par, embeddedParents, st) ==
  IF v.kind # "Struct"
  THEN marshalValue(v, par, FALSE, st)
  ELSE Loops(Append(st, ObjectFrame(v.n, embeddedParents, par)))

\* the key kind not looked at
marshalValueMapAnyKey(v, embeddedParents, st) ==
  IF v.n = 0 THEN Returns(st, Null, NoError)
  ELSE Loops(Append(st, MapFrame(v.n, embeddedParents)))

marshalValueMap(v, embeddedParents, st) ==
  IF v.n = 0 THEN Returns(st, Null, NoError)
  ELSE IF v.keyKind # "String" THEN Returns(st, Null, InvalidTypeError)
  ELSE Loops(Append(st, MapFrame(v.n, embeddedParents)))

marshalValueDelegate(v, st) ==
  Returns(st, DelegateResult(v.out).val, DelegateResult(v.out).err)

marshalValue(v, par, embeddedParents, st) ==
  IF v.kind = "Invalid" THEN Returns(st, Null, NoError)
  ELSE IF v.impl = "Marshaller" THEN marshalValueDelegate(v, st)
  ELSE IF v.impl # "" THEN Returns(st, SameNode(v.impl), NoError)
  ELSE IF v.iface \/ v.kind = "Struct"
       THEN marshalObject([v EXCEPT !.iface = FALSE], par, embeddedParents, st)
  ELSE IF v.kind = "Slice" THEN Loops(Append(st, SliceFrame(v.n, embeddedParents)))
  ELSE IF v.kind = "Map" THEN marshalValueMap(v, embeddedParents, st)
  ELSE Returns(st, ScalarNode(v.n), NoError)

\* a frame whose field is being walked and will be dropped whatever its value
Hides(fr) ==
  /\ fr.fn = "marshalObject" /\ fr.busy
  /\ ~(fr.shouldShowFromGroup /\ fr.shouldShowFromSince /\ fr.shouldShowFromUntil)

UnderHidden(st) == \E p \in DOMAIN st : Hides(st[p])

Raise(err, st) ==
  IF err # NoError /\ raised.err = NoError
  THEN [err |-> err, hidden |-> UnderHidden(st), depth |-> Len(st)]
  ELSE raised

\* the call made by a loop body (or by Marshal) has run up to its first loop
\* or to its return
Called(call) ==
  \E r \in {call} :
    /\ mode' = r.mode
    /\ stack' = r.stack
    /\ ret' = [val |-> r.val, err |-> r.err]
    /\ raised' = Raise(r.err, r.stack)

\* marshalValue is given v
Given(v) ==
  badMaps' = badMaps \cup (IF v.impl = "" /\ v.kind = "Map" /\ v.keyKind # "String"
                            THEN {v.n} ELSE {})

OptionsSet ==
  [Groups : OptionGroups, ApiVersion : ApiVersions,
   OutputFieldsWithNoGroup : BOOLEAN, InheritGroups : BOOLEAN]

Init ==
  /\ options \in OptionsSet
  /\ mode = "idle"
  /\ groups = EmptyGroupSet
  /\ parents = EmptyGroupSet
  /\ stack = <<>>
  /\ ret = NoRet
  /\ nodes = 0
  /\ tags = 0
  /\ raised = NoRaise
  /\ badMaps = {}

(***************************************************************************)
(* Marshal(options, data): seeds the two sets and calls marshalObject.     *)
(***************************************************************************)
Marshal ==
  /\ mode = "idle"
  /\ groups' = incrementGroups(EmptyGroupSet, options.Groups)
  /\ parents' = EmptyGroupSet
  /\ \E data \in TopValues :
       /\ Called(marshalObject(data, EmptyGroupSet, FALSE, <<>>))
       /\ Given(data)
       /\ nodes' = Size(data)
       /\ tags' = ValTags(data)
  /\ UNCHANGED options

(***************************************************************************)
(* One pass of marshalObject's field loop up to and into its call of       *)
(* marshalValue, and the return of dest after the last field.              *)
(***************************************************************************)
EndObject ==
  /\ mode = "loop" /\ Top.fn = "marshalObject" /\ Top.i = Top.n
  /\ ret' = [val |-> Top.dest, err |-> NoError]
  /\ stack' = Pop
  /\ mode' = "return"
  /\ UNCHANGED <<options, groups, parents, nodes, tags, raised, badMaps>>

Skips(f) ==
  \/ jsonTagOf(f) = "-"
  \/ (f.omitempty /\ isEmptyValue(f.val))
  \/ ~f.exported

\* the first of version.NewVersion(since), version.NewVersion(until) to fail
VersionFails(f) ==
  \/ (f.since # "" /\ ParseFails(f.since))
  \/ (f.until # "" /\ ParseFails(f.until))

BusyWith(fr, f, par) ==
  [fr EXCEPT
     !.busy = TRUE, !.field = f, !.key = jsonTagOf(f),
     !.groupNames = groupNamesOf(options, par, f),
     !.shouldShowFromGroup = shouldShowFromGroup(options, groups, par, fr.embeddedParents, f),
     !.shouldShowFromSince = shouldShowFromSince(options, f),
     !.shouldShowFromUntil = shouldShowFromUntil(options, f)]

VisitField ==
  /\ mode = "loop" /\ Top.fn = "marshalObject" /\ Top.i < Top.n
  /\ \E f \in FieldTable[Top.i + 1, MaxNodes - nodes, MaxTags - tags] :
       /\ nodes' = nodes + Size(f.val)
       /\ tags' = tags + FieldTags(f)
       /\ IF Skips(f)
          THEN /\ stack' = SetTop([Top EXCEPT !.i = @ + 1])
               /\ UNCHANGED <<parents, ret, raised, mode, badMaps>>
          ELSE IF VersionFails(f)
          THEN /\ Called(Returns(Pop, Null, VersionError))
               /\ UNCHANGED <<parents, badMaps>>
          ELSE /\ parents' = IF pushesGroups(options, f)
                             THEN incrementGroups(parents, groupNamesOf(options, parents, f))
                             ELSE parents
               /\ Called(marshalValue(f.val, parents', isEmbeddedField(f),
                                      SetTop(BusyWith(Top, f, parents))))
               /\ Given(f.val)
  /\ UNCHANGED <<options, groups>>

(***************************************************************************)
(* The slice loop of marshalValue: the call for element i, and the return  *)
(* of dest after the last one.  An element or entry that is a nil pointer  *)
(* makes v.Interface() panic after v.Elem(): the walk has no such input.   *)
(***************************************************************************)
EndSlice ==
  /\ mode = "loop" /\ Top.fn = "slice" /\ Top.i = Top.n
  /\ ret' = [val |-> Top.dest, err |-> NoError]
  /\ stack' = Pop
  /\ mode' = "return"
  /\ UNCHANGED <<options, groups, parents, nodes, tags, raised, badMaps>>

VisitElement ==
  /\ mode = "loop" /\ Top.fn = "slice" /\ Top.i < Top.n
  /\ \E e \in ValueTable[MaxNodes - nodes, MaxTags - tags] \ {NilPointer} :
       /\ Called(marshalValue(e, parents, Top.embeddedParents,
                              SetTop([Top EXCEPT !.busy = TRUE])))
       /\ Given(e)
       /\ nodes' = nodes + Size(e)
       /\ tags' = tags + ValTags(e)
  /\ UNCHANGED <<options, groups, parents>>

(***************************************************************************)
(* The map loop of marshalValue, over v.MapKeys() in the order the runtime *)
(* gives them.                                                             *)
(***************************************************************************)
EndMap ==
  /\ mode = "loop" /\ Top.fn = "map" /\ Top.keys = {}
  /\ ret' = [val |-> Top.dest, err |-> NoError]
  /\ stack' = Pop
  /\ mode' = "return"
  /\ UNCHANGED <<options, groups, parents, nodes, tags, raised, badMaps>>

VisitEntry ==
  /\ mode = "loop" /\ Top.fn = "map" /\ Top.keys # {}
  /\ \E key \in Top.keys, e \in ValueTable[MaxNodes - nodes, MaxTags - tags] \ {NilPointer} :
       /\ Called(marshalValue(e, parents, Top.embeddedParents,
            SetTop([Top EXCEPT !.busy = TRUE, !.key = key, !.keys = @ \ {key}])))
       /\ Given(e)
       /\ nodes' = nodes + Size(e)
       /\ tags' = tags + ValTags(e)
  /\ UNCHANGED <<options, groups, parents>>

(***************************************************************************)
(* The rest of a loop body, once the recursive call has returned.          *)
(***************************************************************************)
\* an embedded field stored like any other
StoreFieldUnderKey(fr, v) ==
  IF ~(fr.shouldShowFromGroup /\ fr.shouldShowFromSince /\ fr.shouldShowFromUntil)
  THEN fr.dest.m
  ELSE Store(fr.dest.m, fr.key, v)

StoreField(fr, v) ==
  IF ~(fr.shouldShowFromGroup /\ fr.shouldShowFromSince /\ fr.shouldShowFromUntil)
  THEN fr.dest.m
  ELSE IF isEmbeddedField(fr.field) /\ v.k = "map"
  THEN Merge(fr.dest.m, v.m)
  ELSE Store(fr.dest.m, fr.key, v)

FieldReturn ==
  /\ mode = "return" /\ stack # <<>> /\ Top.fn = "marshalObject"
  /\ parents' = IF pushesGroups(options, Top.field)
                THEN decrementGroups(parents, Top.groupNames)
                ELSE parents
  /\ IF fails(Top, ret.err)
     THEN /\ ret' = [val |-> Null, err |-> ret.err]
          /\ stack' = Pop
          /\ mode' = "return"
     ELSE /\ stack' = SetTop([ObjectFrame(Top.n, Top.embeddedParents, Top.parents0)
                                EXCEPT !.i = Top.i + 1,
                                       !.dest = MapNode(StoreField(Top, ret.val))])
          /\ ret' = NoRet
          /\ mode' = "loop"
  /\ UNCHANGED <<options, groups, nodes, tags, raised, badMaps>>

\* the slice loop going on after an element failed
ElementReturnGoesOn ==
  /\ mode = "return" /\ stack # <<>> /\ Top.fn = "slice"
  /\ stack' = SetTop([Top EXCEPT !.busy = FALSE, !.i = @ + 1,
                                  !.dest.s[Top.i + 1] = IF ret.err = NoError THEN ret.val ELSE Null])
  /\ ret' = NoRet
  /\ mode' = "loop"
  /\ UNCHANGED <<options, groups, parents, nodes, tags, raised, badMaps>>

ElementReturn ==
  /\ mode = "return" /\ stack # <<>> /\ Top.fn = "slice"
  /\ IF ret.err # NoError
     THEN /\ ret' = [val |-> Null, err |-> ret.err]
          /\ stack' = Pop
          /\ mode' = "return"
     ELSE /\ stack' = SetTop([Top EXCEPT !.busy = FALSE, !.i = @ + 1,
                                         !.dest.s[Top.i + 1] = ret.val])
          /\ ret' = NoRet
          /\ mode' = "loop"
  /\ UNCHANGED <<options, groups, parents, nodes, tags, raised, badMaps>>

EntryReturn ==
  /\ mode = "return" /\ stack # <<>> /\ Top.fn = "map"
  /\ IF ret.err # NoError
     THEN /\ ret' = [val |-> Null, err |-> ret.err]
          /\ stack' = Pop
          /\ mode' = "return"
     ELSE /\ stack' = SetTop([Top EXCEPT !.busy = FALSE, !.key = "",
                                !.dest = MapNode(Store(Top.dest.m, Top.key, ret.val))])
          /\ ret' = NoRet
          /\ mode' = "loop"
  /\ UNCHANGED <<options, groups, parents, nodes, tags, raised, badMaps>>

\* Marshal returns what marshalObject returned
Return ==
  /\ mode = "return" /\ stack = <<>>
  /\ mode' = "done"
  /\ UNCHANGED <<options, groups, parents, stack, ret, nodes, tags, raised, badMaps>>

Next ==
  \/ Marshal
  \/ VisitField
  \/ EndObject
  \/ VisitElement
  \/ EndSlice
  \/ VisitEntry
  \/ EndMap
  \/ FieldReturn
  \/ ElementReturn
  \/ EntryReturn
  \/ Return

Spec == Init /\ [][Next]_vars

(***************************************************************************)
(* Properties.  A field is decided on the step that follows the return of  *)
(* its recursive call: that step reads the busy frame on top of the stack  *)
(* and leaves the frame's dest with or without the field.                  *)
(***************************************************************************)
Active == Range(options.Groups)
Declared(f) == Range(f.groups)

\* the frames whose loop body is inside its call of marshalValue for a field
FieldFrames == {p \in DOMAIN stack : stack[p].fn = "marshalObject" /\ stack[p].busy}

\* the value of the top frame's field has come back without an error
Returning ==
  /\ mode = "return" /\ stack # <<>>
  /\ Top.fn = "marshalObject" /\ Top.busy
  /\ ret.err = NoError

PassesSince(f) == f.since = "" \/ options.ApiVersion >= Versions[f.since]
PassesUntil(f) == f.until = "" \/ options.ApiVersion <= Versions[f.until]

\* the output mapping of the top frame after the step
destAfter == stack'[Len(stack)].dest.m

StoredUnder(key, v) == key \in DOMAIN destAfter /\ destAfter[key] = v
MergedIn(m) == \A k \in DOMAIN m : k \in DOMAIN destAfter /\ destAfter[k] = m[k]
Dropped == destAfter = Top.dest.m

Kept(fr, v) ==
  IF isEmbeddedField(fr.field) /\ v.k = "map" THEN MergedIn(v.m) ELSE StoredUnder(fr.key, v)

\* how often name g occurs in the sequence gs
RECURSIVE Occurrences(_, _)
Occurrences(gs, g) ==
  IF gs = <<>> THEN 0 ELSE B(Head(gs) = g) + Occurrences(Tail(gs), g)

RECURSIVE SumOver(_, _)
SumOver(S, g) ==
  IF S = {} THEN 0
  ELSE LET p == CHOOSE q \in S : TRUE
       IN Occurrences(stack[p].groupNames, g) + SumOver(S \ {p}, g)

\* the frames on the recursion path whose field pushed its groups
Pushers == {p \in FieldFrames : pushesGroups(options, stack[p].field)}

C2_Since ==
  [][(Returning /\ Top.field.since # "")
       => IF options.ApiVersion < Versions[Top.field.since]
          THEN Dropped
          ELSE IF Top.shouldShowFromGroup /\ PassesUntil(Top.field)
               THEN Kept(Top, ret.val)
               ELSE Dropped]_vars

C2_Witness ==
  /\ Returning
  /\ Top.field.since # "" /\ options.ApiVersion < Versions[Top.field.since]
  /\ Top.shouldShowFromGroup
  /\ Declared(Top.field) \cap Active # {}

C4_AnyBadMapFails ==
  (mode = "done" /\ badMaps # {})
    => (ret.err = InvalidTypeError /\ ret.val = Null)

\* C4 (amended): once a map that has keys and whose key type is not string
\* was reached, at any depth, Marshal returns the invalid-type error and a
\* null node; an empty map yields null and no error whatever its key type.
C4_KeyedBadMapFails ==
  /\ (mode = "done" /\ \E n \in badMaps : n > 0)
       => (ret.err = InvalidTypeError /\ ret.val = Null)
  /\ (mode = "done" /\ ret.err = InvalidTypeError) => \E n \in badMaps : n > 0

C4_Witness ==
  /\ mode = "done"
  /\ \E n \in badMaps : n > 0
  /\ raised.depth >= 1

\* C5 as stated: after the first error nothing more is visited, and Marshal
\* returns a null node with that error.
C5_NullWithError ==
  [][/\ raised.err # NoError
          => (mode' \in {"return", "done"} /\ nodes' = nodes /\ Len(stack') <= Len(stack))
     /\ (mode' = "done" /\ raised'.err # NoError)
          => (ret'.err = raised'.err /\ ret'.val = Null)]_vars

\* C5 (amended): after the first error no field, element or entry is visited
\* any more and every waiting loop returns; Marshal returns that same error,
\* with a null node whenever the error was raised below a field, an element
\* or an entry.  When the data given to Marshal is itself a Marshaller that
\* is no struct, Marshal returns the pair of that value's own Marshal as it
\* is, null or not.
C5_FailFast ==
  [][/\ raised.err # NoError
          => (mode' \in {"return", "done"} /\ nodes' = nodes /\ Len(stack') <= Len(stack))
     /\ (mode' = "done" /\ raised'.err # NoError)
          => /\ ret'.err = raised'.err
             /\ raised'.depth > 0 => ret'.val = Null
             /\ ret'.val # Null => raised'.err = DelegateError]_vars

C5_Witness ==
  /\ mode = "return" /\ ret.err # NoError
  /\ stack # <<>> /\ Top.busy
  /\ Top.i + 1 < Top.n

\* C6: with InheritGroups on, every field walked below a field that declares
\* an active group is group-visible whatever it declares itself; and a field
\* is group-visible only for a reason that holds on its own path: its own
\* groups, OutputFieldsWithNoGroup, embedding, no filtering at all, or a
\* field above it on the recursion path that declares an active group.  The
\* groups of a field the walker has returned from are no such reason.
C6_InheritedOnPath ==
  options.InheritGroups =>
    \A p \in FieldFrames :
      LET above == \E q \in FieldFrames :
                     q < p /\ Declared(stack[q].field) \cap Active # {}
          f == stack[p].field
      IN /\ above => stack[p].shouldShowFromGroup
         /\ stack[p].shouldShowFromGroup
              => \/ above
                 \/ Declared(f) \cap Active # {}
                 \/ (f.groups = <<>> /\ options.OutputFieldsWithNoGroup)
                 \/ isEmbeddedField(f)
                 \/ (options.Groups = <<>> /\ ~options.OutputFieldsWithNoGroup)

C6_Witness ==
  /\ options.InheritGroups
  /\ \E p, q \in FieldFrames :
       /\ q < p
       /\ Declared(stack[q].field) \cap Active # {}
       /\ stack[p].field.groups # <<>>
       /\ Declared(stack[p].field) \cap Active = {}
       /\ stack[p].shouldShowFromGroup

\* C7: with OutputFieldsWithNoGroup set, InheritGroups off and outside any
\* embedded context, a non-embedded field is group-visible iff it declares no
\* groups or one of its declared groups is active; a field that passes the
\* since and until checks is then kept iff it is group-visible.
C7_NoGroupShown ==
  [][(/\ Returning
      /\ options.OutputFieldsWithNoGroup /\ ~options.InheritGroups
      /\ ~Top.embeddedParents
      /\ ~isEmbeddedField(Top.field))
       => /\ Top.shouldShowFromGroup
               <=> (Top.field.groups = <<>> \/ Declared(Top.field) \cap Active # {})
          /\ (PassesSince(Top.field) /\ PassesUntil(Top.field))
               => IF Top.field.groups = <<>> \/ Declared(Top.field) \cap Active # {}
                  THEN StoredUnder(Top.key, ret.val)
                  ELSE Dropped]_vars

C7_Witness ==
  /\ Returning
  /\ options.OutputFieldsWithNoGroup /\ ~options.InheritGroups
  /\ options.Groups # <<>>
  /\ ~Top.embeddedParents /\ ~isEmbeddedField(Top.field)
  /\ Top.field.groups = <<>>
  /\ Top.i >= 1 /\ DOMAIN Top.dest.m = {}

\* seeded once, never changed
GroupsSeeded == mode # "idle" => groups = incrementGroups(EmptyGroupSet, options.Groups)

\* a marshalObject that is in its loop (and so when it returns) sees the
\* counts it was entered with
Balanced ==
  (mode = "loop" /\ Top.fn = "marshalObject")
    => \A g \in GroupNames : Count(parents, g) = Count(Top.parents0, g)

\* C8 as stated: the count of each name in parents is the number of fields
\* on the recursion path that pushed the name.
C8_CountsFields ==
  /\ \A g \in GroupNames :
       Count(parents, g) = Cardinality({p \in Pushers : g \in Range(stack[p].groupNames)})
  /\ Balanced
  /\ mode = "done" => \A g \in GroupNames : ~contains(parents, g)
  /\ GroupsSeeded

\* C8 (amended): the count of each name in parents is the number of times
\* the name occurs in the groups pushed by the fields on the recursion path
\* (a groups tag that repeats a name pushes it once per occurrence), so it is
\* never negative; marshalObject returns with the counts it was entered
\* with, also after an error; at the end of Marshal no name is active; the
\* activation set stays as seeded.
C8_CountsPushes ==
  /\ \A g \in GroupNames : Count(parents, g) = SumOver(Pushers, g)
  /\ \A g \in DOMAIN parents : g \in GroupNames /\ parents[g] >= 0
  /\ Balanced
  /\ mode \in {"return", "done"} /\ stack = <<>> => \A g \in GroupNames : ~contains(parents, g)
  /\ GroupsSeeded

C8_Witness ==
  /\ \E p, q \in Pushers : p # q /\ stack[p].groupNames # <<>> /\ stack[q].groupNames # <<>>
  /\ \E g \in GroupNames : Count(parents, g) = 2

\* C9: the value of a field is walked whether or not the field passes its
\* checks (a frame is busy with a hidden field only while its value is
\* walked or has come back), and the first error raised in the call, under
\* a hidden field or not, is the error Marshal returns.
C9_HiddenErrorSurfaces ==
  /\ (mode = "done" /\ raised.err # NoError) => ret.err = raised.err
  /\ (mode = "done" /\ ret.err # NoError) => ret.err = raised.err
  /\ (raised.err # NoError /\ mode # "done") => (mode = "return" /\ ret.err = raised.err)

C9_Witness ==
  /\ mode = "done"
  /\ raised.hidden
  /\ ret.err = raised.err /\ ret.err # NoError

\* C10: if Options.Groups is empty and OutputFieldsWithNoGroup is false,
\* then for either value of InheritGroups the parents set stays empty, no
\* field's groups are read or pushed, and every field at every depth is
\* group-visible; so InheritGroups with a non-empty parents set is never the
\* only trigger of the group check.
C10_Unfiltered ==
  (options.Groups = <<>> /\ ~options.OutputFieldsWithNoGroup)
    => /\ DOMAIN parents = {}
       /\ ~checkGroups(options, parents)
       /\ \A p \in FieldFrames : stack[p].shouldShowFromGroup /\ stack[p].groupNames = <<>>

C10_Witness ==
  /\ options.Groups = <<>> /\ ~options.OutputFieldsWithNoGroup
  /\ options.InheritGroups
  /\ \E p, q \in FieldFrames :
       /\ q < p
       /\ stack[q].field.groups # <<>>
       /\ stack[p].field.groups # <<>>

====
